---- MODULE Spec2Model ----
(***************************************************************************)
(* A model of the narrative analytics backend: the text normaliser and the *)
(* table cleaner (utils.py), the lazily loaded sentiment model (app.py,    *)
(* model_loader.py), the four analytics stages and the report assembler    *)
(* (analytics_engine.py) and the three HTTP handlers (app.py).             *)
(***************************************************************************)
EXTENDS Integers, Sequences, FiniteSets, TLC

VARIABLES
    \* utils.clean_dataframe called on its own
    df,             \* the table handed to clean_dataframe
    cleaned,        \* what clean_dataframe returned (NoFrame before it returns)
    \* utils.clean_text called on its own, and again on its result
    raw,            \* the string handed to clean_text
    normalized,     \* what the calls returned so far, in order
    \* app.get_model raced by request threads
    SENTIMENT_MODEL,\* the module global of app.py: None or an instance id
    lru,            \* the lru_cache(maxsize=1) of get_sentiment_model: None or an instance id
    instances,      \* how many times pipeline(...) has built a model
    tpc,            \* position of each request thread inside get_model
    tlocal,         \* the instance a thread's get_sentiment_model call built or found
    tgot,           \* what get_model returned to each thread
    \* analytics_engine.run_full_analysis, stage by stage
    inTable,        \* its df argument, as the stages read it
    inModel,        \* its model argument, the sentiment scorer
    ppc,            \* where run_full_analysis is: the stage to run next, or how it ended
    outs,           \* the locals eda, descriptive, diagnostic and predictive
    report,         \* the mapping it returned (NoReport before that)
    failure,        \* the message of the exception it raised ("" if none)
    calls,          \* the scorer's invocations so far: the stage and the list size
    steps,          \* the library steps the predictive stage went through
    \* the three request handlers of app.py
    request,        \* the request last handled (NoRequest before the first)
    response,       \* the response to it: [status, body]
    invoked,        \* what the handler invoked, in order
    served          \* how many requests have been handled

cleanVars == <<df, cleaned, raw, normalized>>
loadVars == <<SENTIMENT_MODEL, lru, instances, tpc, tlocal, tgot>>
runVars == <<inTable, inModel, ppc, outs, report, failure, calls, steps>>
vars == <<df, cleaned, raw, normalized, SENTIMENT_MODEL, lru, instances, tpc, tlocal, tgot,
          inTable, inModel, ppc, outs, report, failure, calls, steps,
          request, response, invoked, served>>
webVars == <<request, response, invoked, served>>

None == 0

(***************************************************************************)
(* Strings are sequences of characters.                                    *)
(***************************************************************************)
NUL == "NUL"
CR == "CR"
LF == "LF"
TAB == "TAB"
SP == " "
FF == "FF"

\* what \s matches and str.strip() removes, among the characters used here
Whitespace == {SP, TAB, LF, CR, FF}

\* re.sub(Class+, " ", text): every maximal run of Class becomes one space
CollapseRuns(text, Class) ==
    LET F[i \in 0..Len(text)] ==
            IF i = 0 THEN <<>>
            ELSE IF text[i] \in Class
                 THEN IF i > 1 /\ text[i - 1] \in Class
                      THEN F[i - 1]
                      ELSE Append(F[i - 1], SP)
                 ELSE Append(F[i - 1], text[i])
    IN F[Len(text)]

\* str.lstrip(): the leading whitespace only
StripLeading(text) ==
    LET keep == {i \in 1..Len(text) : text[i] \notin Whitespace}
    IN IF keep = {} THEN <<>>
       ELSE SubSeq(text, CHOOSE i \in keep : \A j \in keep : i <= j, Len(text))

\* str.strip()
Strip(text) ==
    LET keep == {i \in 1..Len(text) : text[i] \notin Whitespace}
    IN IF keep = {} THEN <<>>
       ELSE LET lo == CHOOSE i \in keep : \A j \in keep : i <= j
                hi == CHOOSE i \in keep : \A j \in keep : j <= i
            IN SubSeq(text, lo, hi)

clean_text(text) ==
    LET t1 == [i \in 1..Len(text) |-> IF text[i] = NUL THEN SP ELSE text[i]]
        t2 == CollapseRuns(t1, {CR, LF, TAB})
        t3 == CollapseRuns(t2, Whitespace)
    IN Strip(t3)

(***************************************************************************)
(* Tables.  A cell is a string, a number or null; a row carries its pandas *)
(* index label and one cell per column.                                    *)
(***************************************************************************)
Null == [kind |-> "null", s |-> <<>>, n |-> 0]
Str(s) == [kind |-> "str", s |-> s, n |-> 0]
Num(n) == [kind |-> "num", s |-> <<>>, n |-> n]

_normalize_value(value) ==
    IF value.kind = "str" THEN Str(clean_text(value.s)) ELSE value

\* DataFrame.dropna(how="all"): rows whose every cell is null go
DropNa(rows) ==
    SelectSeq(rows, LAMBDA r : \E c \in DOMAIN r.cells : r.cells[c].kind # "null")

\* DataFrame.drop_duplicates(): a row equal, cell for cell, to an earlier row goes
DropDuplicatesKeepLast(rows) ==
    LET keep == {i \in 1..Len(rows) :
                    \A j \in (i + 1)..Len(rows) : rows[j].cells # rows[i].cells}
        F[i \in 0..Len(rows)] ==
            IF i = 0 THEN <<>>
            ELSE IF i \in keep THEN Append(F[i - 1], rows[i]) ELSE F[i - 1]
    IN F[Len(rows)]

DropDuplicates(rows) ==
    LET keep == {i \in 1..Len(rows) : \A j \in 1..(i - 1) : rows[j].cells # rows[i].cells}
        F[i \in 0..Len(rows)] ==
            IF i = 0 THEN <<>>
            ELSE IF i \in keep THEN Append(F[i - 1], rows[i]) ELSE F[i - 1]
    IN F[Len(rows)]

\* the loop over cleaned.columns: every cell of every column is normalised
NormalizeColumns(columns, rows) ==
    [i \in 1..Len(rows) |->
        [idx |-> rows[i].idx,
         cells |-> [c \in DOMAIN rows[i].cells |->
                       IF \E k \in 1..Len(columns) : columns[k] = c
                       THEN _normalize_value(rows[i].cells[c])
                       ELSE rows[i].cells[c]]]]

clean_dataframe(frame) ==
    LET dropped == DropNa(frame.rows)
        deduped == DropDuplicates(dropped)
    IN [columns |-> frame.columns,
        rows |-> NormalizeColumns(frame.columns, deduped)]

(***************************************************************************)
(* Inputs of the cleaner.                                                  *)
(***************************************************************************)
MaxRows == 3

\* the strings a text cell is drawn from: "", "a", " a", "a\t", "a b",
\* "a\0\nb", " " and "b"
CellTexts ==
    {<<>>, <<"a">>, <<SP, "a">>, <<"a", TAB>>, <<"a", SP, "b">>,
     <<"a", NUL, LF, "b">>, <<SP>>, <<"b">>}
NumVals == {1}

TextCells == {Null} \cup {Str(s) : s \in CellTexts}
ValueCells == {Null} \cup {Num(n) : n \in NumVals}

ColumnLists == {<<"comment", "value">>, <<"comment">>}

RowCells(columns) ==
    {[c \in {columns[k] : k \in 1..Len(columns)} |->
         IF c = "comment" THEN t ELSE v] : t \in TextCells, v \in ValueCells}

\* a freshly built DataFrame: the index labels are 0, 1, 2, ...
NewFrame(columns, cellRows) ==
    [columns |-> columns,
     rows |-> [i \in 1..Len(cellRows) |-> [idx |-> i - 1, cells |-> cellRows[i]]]]

FramesOver(columns) ==
    {NewFrame(columns, cr) : cr \in UNION {[1..k -> RowCells(columns)] : k \in 0..MaxRows}}

NoFrame == [columns |-> <<>>, rows |-> <<>>, absent |-> TRUE]

\* clean_text has not been called on its own
TextIdle ==
    /\ raw = <<>>
    /\ normalized = <<>>

LoadIdle ==
    /\ SENTIMENT_MODEL = None
    /\ lru = None
    /\ instances = 0
    /\ tpc = <<>>
    /\ tlocal = <<>>
    /\ tgot = <<>>

NoReport == [absent |-> TRUE]
NotRun == [absent |-> TRUE]

RunIdle ==
    /\ inTable = [absent |-> TRUE]
    /\ inModel = [absent |-> TRUE]
    /\ ppc = "idle"
    /\ outs = <<>>
    /\ report = NoReport
    /\ failure = ""
    /\ calls = <<>>
    /\ steps = <<>>

NoRequest == [absent |-> TRUE]
NoResponse == [status |-> 0, body |-> [absent |-> TRUE]]

WebIdle ==
    /\ request = NoRequest
    /\ response = NoResponse
    /\ invoked = <<>>
    /\ served = 0

InitClean ==
    /\ \E columns \in ColumnLists : df \in FramesOver(columns)
    /\ cleaned = NoFrame
    /\ TextIdle
    /\ LoadIdle
    /\ RunIdle
    /\ WebIdle

CleanDataframe ==
    /\ cleaned = NoFrame
    /\ cleaned' = clean_dataframe(df)
    /\ UNCHANGED <<df, raw, normalized, loadVars, runVars, webVars>>

NextClean == CleanDataframe

SpecClean == InitClean /\ [][NextClean]_vars

AllNull(cells) == \A c \in DOMAIN cells : cells[c].kind = "null"

\* C9: the output of clean_dataframe has no row whose values are all null and
\* no two rows that are exactly equal, the string cells being normalised.
C9_NoNullNoDuplicate ==
    cleaned # NoFrame =>
        /\ \A i \in 1..Len(cleaned.rows) : ~AllNull(cleaned.rows[i].cells)
        /\ \A i, j \in 1..Len(cleaned.rows) :
              i # j => cleaned.rows[i].cells # cleaned.rows[j].cells

\* the row of the input table that carries index label k
InputRow(k) == df.rows[k + 1]

FirstOccurrence(i) ==
    /\ ~AllNull(df.rows[i].cells)
    /\ \A j \in 1..(i - 1) : df.rows[j].cells # df.rows[i].cells

MaxLen == 4

\* the characters of the strings: the five the claim names, a form feed
\* (which \s matches and [\r\n\t] does not) and a letter
Chars == {NUL, CR, LF, TAB, SP, FF, "a"}

Strings == UNION {[1..k -> Chars] : k \in 0..MaxLen}

InitText ==
    /\ raw \in Strings
    /\ normalized = <<>>
    /\ df = NoFrame
    /\ cleaned = NoFrame
    /\ LoadIdle
    /\ RunIdle
    /\ WebIdle

\* clean_text(raw)
CleanText ==
    /\ normalized = <<>>
    /\ normalized' = <<clean_text(raw)>>
    /\ UNCHANGED <<df, cleaned, raw, loadVars, runVars, webVars>>

\* clean_text of what the first call returned
CleanTextAgain ==
    /\ Len(normalized) = 1
    /\ normalized' = Append(normalized, clean_text(normalized[1]))
    /\ UNCHANGED <<df, cleaned, raw, loadVars, runVars, webVars>>

NextText == CleanText \/ CleanTextAgain

SpecText == InitText /\ [][NextText]_vars

\* a string as clean_text leaves it
Normal(str) ==
    /\ \A i \in 1..Len(str) : str[i] \notin {NUL, CR, LF, TAB}
    /\ \A i \in 1..(Len(str) - 1) : ~(str[i] \in Whitespace /\ str[i + 1] \in Whitespace)
    /\ str = <<>> \/ (str[1] \notin Whitespace /\ str[Len(str)] \notin Whitespace)

\* C11: clean_text returns for every string; applied to its own result it
\* returns that result; the result has no NUL, CR, LF or TAB, no two
\* whitespace characters in a row and no whitespace at either end.
C11_CleanTextIdempotent ==
    /\ Len(normalized) >= 1 => Normal(normalized[1])
    /\ Len(normalized) = 2 => normalized[2] = normalized[1]

\* both calls made on a string of NUL, form feed and tab around a letter
\* and a line feed: what is left is the letter alone
C11_Witness ==
    /\ raw = <<NUL, FF, "a", LF>>
    /\ normalized = <<<<"a">>, <<"a">>>>

(***************************************************************************)
(* app.get_model called by the threads of the server (app.run serves each  *)
(* request on a thread of its own).  One action per step at which another  *)
(* thread can run.                                                         *)
(***************************************************************************)
NThreads == 2
Threads == 1..NThreads

InitLoad ==
    /\ SENTIMENT_MODEL = None
    /\ lru = None
    /\ instances = 0
    /\ tpc = [t \in Threads |-> "call"]
    /\ tlocal = [t \in Threads |-> None]
    /\ tgot = [t \in Threads |-> None]
    /\ df = NoFrame
    /\ cleaned = NoFrame
    /\ TextIdle
    /\ RunIdle
    /\ WebIdle

\* if SENTIMENT_MODEL is None:
CheckHandle(t) ==
    /\ tpc[t] = "call"
    /\ tpc' = [tpc EXCEPT ![t] = IF SENTIMENT_MODEL = None THEN "lookup" ELSE "return"]
    /\ UNCHANGED <<SENTIMENT_MODEL, lru, instances, tlocal, tgot, cleanVars, runVars, webVars>>

\* get_sentiment_model(): the lru_cache wrapper looks its one entry up
CacheLookup(t) ==
    /\ tpc[t] = "lookup"
    /\ IF lru # None
       THEN /\ tlocal' = [tlocal EXCEPT ![t] = lru]
            /\ tpc' = [tpc EXCEPT ![t] = "assign"]
       ELSE /\ tpc' = [tpc EXCEPT ![t] = "build"]
            /\ UNCHANGED tlocal
    /\ UNCHANGED <<SENTIMENT_MODEL, lru, instances, tgot, cleanVars, runVars, webVars>>

\* on a miss the wrapper calls pipeline(...), which builds a new model ...
BuildModel(t) ==
    /\ tpc[t] = "build"
    /\ instances' = instances + 1
    /\ tlocal' = [tlocal EXCEPT ![t] = instances + 1]
    /\ tpc' = [tpc EXCEPT ![t] = "store"]
    /\ UNCHANGED <<SENTIMENT_MODEL, lru, tgot, cleanVars, runVars, webVars>>

\* ... or raises; get_model logs the failure and raises it again
BuildFails(t) ==
    /\ tpc[t] = "build"
    /\ tpc' = [tpc EXCEPT ![t] = "raised"]
    /\ UNCHANGED <<SENTIMENT_MODEL, lru, instances, tlocal, tgot, cleanVars, runVars, webVars>>

\* back in the wrapper: the result is cached unless the key was cached while
\* the call ran; the caller gets the result of its own call either way
CacheStore(t) ==
    /\ tpc[t] = "store"
    /\ lru' = IF lru = None THEN tlocal[t] ELSE lru
    /\ tpc' = [tpc EXCEPT ![t] = "assign"]
    /\ UNCHANGED <<SENTIMENT_MODEL, instances, tlocal, tgot, cleanVars, runVars, webVars>>

\* SENTIMENT_MODEL = <the value get_sentiment_model returned>
AssignHandle(t) ==
    /\ tpc[t] = "assign"
    /\ SENTIMENT_MODEL' = tlocal[t]
    /\ tpc' = [tpc EXCEPT ![t] = "return"]
    /\ UNCHANGED <<lru, instances, tlocal, tgot, cleanVars, runVars, webVars>>

\* return SENTIMENT_MODEL
ReturnHandle(t) ==
    /\ tpc[t] = "return"
    /\ tgot' = [tgot EXCEPT ![t] = SENTIMENT_MODEL]
    /\ tpc' = [tpc EXCEPT ![t] = "done"]
    /\ UNCHANGED <<SENTIMENT_MODEL, lru, instances, tlocal, cleanVars, runVars, webVars>>

\* the thread serves its next request
NextRequest(t) ==
    /\ tpc[t] \in {"done", "raised"}
    /\ tpc' = [tpc EXCEPT ![t] = "call"]
    /\ tlocal' = [tlocal EXCEPT ![t] = None]
    /\ tgot' = [tgot EXCEPT ![t] = None]
    /\ UNCHANGED <<SENTIMENT_MODEL, lru, instances, cleanVars, runVars, webVars>>

NextLoad ==
    \E t \in Threads :
        \/ CheckHandle(t)
        \/ CacheLookup(t)
        \/ BuildModel(t)
        \/ BuildFails(t)
        \/ CacheStore(t)
        \/ AssignHandle(t)
        \/ ReturnHandle(t)
        \/ NextRequest(t)

SpecLoad == InitLoad /\ [][NextLoad]_vars

\* C2: however the first calls of get_model interleave, the model is built at
\* most once and every caller is handed the same instance.
C2_InitialisedOnce ==
    /\ instances <= 1
    /\ \A t, u \in Threads :
          tpc[t] = "done" /\ tpc[u] = "done" => tgot[t] = tgot[u]

(***************************************************************************)
(* The analytics stages read three things of the DataFrame: whether a      *)
(* column is string-typed, the number of rows, and the text column as a    *)
(* list of strings; the diagnostic stage also reads the correlations of    *)
(* the numeric columns.  A table is given to them as                       *)
(*   [text_column, records, texts, numeric, corr]                          *)
(* where texts is the list df[text_column].fillna("").astype(str).tolist() *)
(* written as runs: <<[text |-> t, n |-> k], ...>> is k times t, then ...  *)
(* and corr[i][j] is numeric_df.corr().fillna(0) in thousandths.           *)
(***************************************************************************)
Min(a, b) == IF a < b THEN a ELSE b

RECURSIVE SumSeq(_)
SumSeq(q) == IF q = <<>> THEN 0 ELSE q[1] + SumSeq(Tail(q))

RunTotal(runs) == SumSeq([i \in 1..Len(runs) |-> runs[i].n])

\* list[:k] of a list written as runs
RECURSIVE TakeRuns(_, _)
TakeRuns(runs, k) ==
    IF k <= 0 \/ runs = <<>> THEN <<>>
    ELSE IF runs[1].n = 0 THEN TakeRuns(Tail(runs), k)
    ELSE IF runs[1].n >= k THEN <<[runs[1] EXCEPT !.n = k]>>
    ELSE <<runs[1]>> \o TakeRuns(Tail(runs), k - runs[1].n)

\* every table taken to have a string-typed column
AnyColumnIsText(table) == TRUE

_find_text_column(table) == table.text_column

\* round(x, d) of Python for x = num / den scaled to an integer: half to even
RoundHalfEven(num, den) ==
    LET q == num \div den
        r == num % den
    IN IF 2 * r < den THEN q
       ELSE IF 2 * r > den THEN q + 1
       ELSE IF q % 2 = 0 THEN q ELSE q + 1

(***************************************************************************)
(* The sentiment scorer: model(texts) gives one score per text, the score  *)
(* of a text depending on the text alone, or raises.  failAt = k makes the *)
(* k-th invocation raise (0: none does).                                   *)
(***************************************************************************)
NoLabel == "<no label>"
RawLabels == {"POSITIVE", "negative", "LABEL_1", NoLabel}

ScorerError == "scorer failed"

\* str.upper() on the labels a scorer returns
Upper(label) ==
    CASE label = "negative" -> "NEGATIVE"
      [] label = "positive" -> "POSITIVE"
      [] OTHER -> label

_sentiment_label(score) ==
    IF score = NoLabel THEN "NEUTRAL" ELSE Upper(score)

\* model(texts) as its nth invocation
Invoke(model, nth, texts) ==
    IF model.failAt = nth
    THEN [raised |-> TRUE, scores |-> <<>>]
    ELSE [raised |-> FALSE,
          scores |-> [i \in 1..Len(texts) |->
                         [score |-> model.score[texts[i].text], n |-> texts[i].n]]]

\* [_sentiment_label(score) for score in scores], as runs
LabelsOf(scores) ==
    [i \in 1..Len(scores) |-> [label |-> _sentiment_label(scores[i].score), n |-> scores[i].n]]

\* labels.count(label)
CountLabel(labels, label) ==
    SumSeq([i \in 1..Len(labels) |-> IF labels[i].label = label THEN labels[i].n ELSE 0])

\* the distinct members of a list in the order they are first met
RECURSIVE Distinct(_, _)
Distinct(q, seen) ==
    IF q = <<>> THEN seen
    ELSE IF \E i \in 1..Len(seen) : seen[i] = Head(q)
         THEN Distinct(Tail(q), seen)
         ELSE Distinct(Tail(q), Append(seen, Head(q)))

\* a tally of the POSITIVE and NEGATIVE labels alone
CounterOfPolar(labels) ==
    LET present == SelectSeq(labels, LAMBDA r : r.n > 0 /\ r.label \in {"POSITIVE", "NEGATIVE"})
        keys == Distinct([i \in 1..Len(present) |-> present[i].label], <<>>)
    IN [i \in 1..Len(keys) |-> [label |-> keys[i], count |-> CountLabel(labels, keys[i])]]

\* dict(Counter(labels)): the labels in the order they are first met, each
\* with its count
CounterOf(labels) ==
    LET present == SelectSeq(labels, LAMBDA r : r.n > 0)
        keys == Distinct([i \in 1..Len(present) |-> present[i].label], <<>>)
    IN [i \in 1..Len(keys) |-> [label |-> keys[i], count |-> CountLabel(labels, keys[i])]]

(***************************************************************************)
(* Tokens.                                                                 *)
(***************************************************************************)
Lower(ch) == IF ch = "O" THEN "o" ELSE ch

\* str.split() of a normalised string: the words between the single spaces
RECURSIVE SplitWords(_, _)
SplitWords(text, word) ==
    IF text = <<>> THEN (IF word = <<>> THEN <<>> ELSE <<word>>)
    ELSE IF Head(text) \in Whitespace
         THEN (IF word = <<>> THEN <<>> ELSE <<word>>) \o SplitWords(Tail(text), <<>>)
         ELSE SplitWords(Tail(text), Append(word, Head(text)))

_tokenize(text) ==
    LET cleanedText == clean_text(text)
        lowered == [i \in 1..Len(cleanedText) |-> Lower(cleanedText[i])]
    IN SplitWords(lowered, <<>>)

RECURSIVE Flatten(_)
Flatten(qq) == IF qq = <<>> THEN <<>> ELSE Head(qq) \o Flatten(Tail(qq))

Occurrences(q, x) == Cardinality({i \in 1..Len(q) : q[i] = x})

\* Counter(tokens).most_common(k) over the tokens of the texts: by count,
\* largest first, equal counts in the order the tokens were first met
MostCommon(texts, k) ==
    LET perRun == [i \in 1..Len(texts) |-> _tokenize(texts[i].text)]
        words == Distinct(Flatten(perRun), <<>>)
        count(w) == SumSeq([i \in 1..Len(texts) |-> texts[i].n * Occurrences(perRun[i], w)])
        \* the rank of the i-th distinct word
        rank(i) == 1 + Cardinality({j \in 1..Len(words) :
                        \/ count(words[j]) > count(words[i])
                        \/ count(words[j]) = count(words[i]) /\ j < i})
        byRank == [r \in 1..Len(words) |->
                      LET i == CHOOSE j \in 1..Len(words) : rank(j) = r
                      IN [word |-> words[i], count |-> count(words[i])]]
    IN SubSeq(byRank, 1, Min(k, Len(byRank)))

(***************************************************************************)
(* The stages.  Each gives [raised, message, value, calls]: whether it     *)
(* raised and with what message, the mapping it returned, and the sizes of *)
(* the lists it handed to the scorer.  nth numbers the scorer's next       *)
(* invocation.                                                             *)
(***************************************************************************)
ScoreLimit == 200
TokenLimit == 500
TrainLimit == 500
MinTrainRows == 10

Returned(value, sizes) ==
    [raised |-> FALSE, message |-> "", value |-> value, calls |-> sizes]
Raised(message, sizes) ==
    [raised |-> TRUE, message |-> message, value |-> <<>>, calls |-> sizes]

perform_eda(table, model, nth) ==
    LET texts == table.texts
        nonEmpty == SelectSeq(texts, LAMBDA r : r.text # <<>> /\ r.n > 0)
        lengthSum == SumSeq([i \in 1..Len(nonEmpty) |->
                                nonEmpty[i].n * Len(clean_text(nonEmpty[i].text))])
        avg_length == IF nonEmpty = <<>> THEN 0 ELSE lengthSum \div RunTotal(nonEmpty)
        scored == TakeRuns(texts, ScoreLimit)
        answer == Invoke(model, nth, scored)
        result(dist, words) ==
            [total_records |-> table.records,
             average_text_length |-> avg_length,
             sentiment_distribution |-> dist,
             word_frequency |-> words]
    IN IF ~_find_text_column(table)
       THEN Returned([total_records |-> table.records,
                      average_text_length |-> 0,
                      sentiment_distribution |-> <<>>,
                      word_frequency |-> <<>>], <<>>)
       ELSE IF RunTotal(texts) = 0
       THEN Returned(result(<<>>, <<>>), <<>>)
       ELSE IF answer.raised
       THEN Raised(ScorerError, <<RunTotal(scored)>>)
       ELSE Returned(result(CounterOf(LabelsOf(answer.scores)),
                            MostCommon(TakeRuns(texts, TokenLimit), 15)),
                     <<RunTotal(scored)>>)

\* the counts out of a total for which the double count / total * 100 falls
\* just below, or just above, the tie x.xx5 the exact quotient is (totals to
\* 200, the most the stage scores)
JustBelowTie == {<<23, 160>>, <<51, 160>>, <<87, 160>>}
JustAboveTie == {<<49, 160>>, <<93, 160>>}

\* round(count / total * 100, 2) in hundredths of a percent
RoundPercent(count, total) ==
    IF <<count, total>> \in JustBelowTie THEN (count * 10000) \div total
    ELSE IF <<count, total>> \in JustAboveTie THEN (count * 10000) \div total + 1
    ELSE RoundHalfEven(count * 10000, total)

\* percentages are kept in hundredths of a percent: round(pct * 100, 2)
descriptive_analytics(table, model, nth) ==
    LET scored == TakeRuns(table.texts, ScoreLimit)
        answer == Invoke(model, nth, scored)
        labels == LabelsOf(answer.scores)
        total == IF RunTotal(labels) = 0 THEN 1 ELSE RunTotal(labels)
    IN IF ~_find_text_column(table)
       THEN Returned([summary_statistics |-> "describe",
                      positive_percentage |-> 0,
                      negative_percentage |-> 0], <<>>)
       ELSE IF answer.raised
       THEN Raised(ScorerError, <<RunTotal(scored)>>)
       ELSE Returned(
                [summary_statistics |-> "describe",
                 positive_percentage |->
                     RoundPercent(CountLabel(labels, "POSITIVE"), total),
                 negative_percentage |->
                     RoundPercent(CountLabel(labels, "NEGATIVE"), total)],
                <<RunTotal(scored)>>)

Abs(x) == IF x < 0 THEN -x ELSE x

\* sorted(pairs, reverse=True)[:5] of the tuples (abs(corr), col_a, col_b, corr);
\* table.corr lists the pairs [a, b, value] of the numeric columns, a before b
TopCorrelations(corr) ==
    LET above(p, q) ==
            \/ Abs(p.value) > Abs(q.value)
            \/ Abs(p.value) = Abs(q.value) /\ p.a > q.a
            \/ Abs(p.value) = Abs(q.value) /\ p.a = q.a /\ p.b > q.b
        rank(i) == 1 + Cardinality({j \in 1..Len(corr) : above(corr[j], corr[i])})
        byRank == [r \in 1..Len(corr) |->
                      LET i == CHOOSE j \in 1..Len(corr) : rank(j) = r
                      IN [pair |-> <<corr[i].a, corr[i].b>>, correlation |-> corr[i].value]]
    IN SubSeq(byRank, 1, Min(5, Len(byRank)))

diagnostic_analytics(table, model, nth) ==
    LET scored == TakeRuns(table.texts, ScoreLimit)
        answer == Invoke(model, nth, scored)
        labels == LabelsOf(answer.scores)
        \* zip(texts, scores): the scored texts, each with its label
        negative_texts == SelectSeq([i \in 1..Len(labels) |->
                                        [text |-> scored[i].text, n |-> scored[i].n,
                                         label |-> labels[i].label]],
                                    LAMBDA r : r.label = "NEGATIVE")
        correlation_insights ==
            IF table.numeric >= 2 THEN TopCorrelations(table.corr) ELSE <<>>
    IN IF ~_find_text_column(table)
       THEN Returned([negative_keywords |-> <<>>,
                      correlation_insights |-> correlation_insights], <<>>)
       ELSE IF answer.raised
       THEN Raised(ScorerError, <<RunTotal(scored)>>)
       ELSE Returned([negative_keywords |-> MostCommon(negative_texts, 10),
                      correlation_insights |-> correlation_insights],
                     <<RunTotal(scored)>>)

(***************************************************************************)
(* The predictive stage.  The library steps are modelled by what decides   *)
(* their outcome: TfidfVectorizer raises on an empty vocabulary (no word   *)
(* of two characters in any text), the stratified train_test_split raises  *)
(* when a class has fewer than two members, and the classifier may predict *)
(* anything on the held-out rows.                                          *)
(***************************************************************************)
\* a reason is a fixed text followed by the message of the failure, if any
Reason(text, message) == [text |-> text, message |-> message]
NoTextReason == Reason("No text column available for model training.", "")
TooFewReason == Reason("Not enough text records for training.", "")
SameSentimentReason ==
    Reason("All texts have the same sentiment; model training requires mixed sentiment data.", "")
EmptyVocabulary == "empty vocabulary"
TooFewMembers == "The least populated class in y has only 1 member"
TrainingFailed(message) == Reason("Model training failed: ", message)

Skipped(reason) == [status |-> "skipped", reason |-> reason]

WordChars == {"a", "b", "k", "n", "o"}

\* token_pattern (?u)\b\w\w+\b finds a word in the lower-cased text
HasWord(text) ==
    \E i \in 1..(Len(text) - 1) : Lower(text[i]) \in WordChars /\ Lower(text[i + 1]) \in WordChars

\* sklearn's _approximate_mode for two classes: n_draws rows shared out in
\* proportion to the class counts, the odd row to the larger remainder and
\* to either class on a tie
ApproximateMode(pos, neg, n_draws) ==
    LET total == pos + neg
        floorPos == (pos * n_draws) \div total
        floorNeg == (neg * n_draws) \div total
        restPos == (pos * n_draws) % total
        restNeg == (neg * n_draws) % total
    IN IF floorPos + floorNeg = n_draws THEN {[pos |-> floorPos, neg |-> floorNeg]}
       ELSE IF restPos > restNeg THEN {[pos |-> floorPos + 1, neg |-> floorNeg]}
       ELSE IF restNeg > restPos THEN {[pos |-> floorPos, neg |-> floorNeg + 1]}
       ELSE {[pos |-> floorPos + 1, neg |-> floorNeg],
             [pos |-> floorPos, neg |-> floorNeg + 1]}

\* the held-out 20 per cent, stratified: the class counts of y_test
TestSplits(pos, neg) ==
    LET n == pos + neg
        n_test == (n + 4) \div 5
        n_train == n - n_test
    IN UNION {ApproximateMode(pos - tr.pos, neg - tr.neg, n_test) :
                 tr \in ApproximateMode(pos, neg, n_train)}

\* how many of k held-out rows of a class the classifier may get right
Guesses(k) == {0, 1, k \div 2, k - 1, k} \cap (0..k)

Ratio(num, den) == IF den = 0 THEN 0 ELSE RoundHalfEven(num * 1000, den)

\* accuracy, precision, recall and F1 in thousandths, zero_division=0
Metrics(test, tp, tn) ==
    LET fp == test.neg - tn
        fn == test.pos - tp
    IN [status |-> "trained",
        accuracy |-> Ratio(tp + tn, test.pos + test.neg),
        precision |-> Ratio(tp, tp + fp),
        recall |-> Ratio(tp, tp + fn),
        f1_score |-> Ratio(2 * tp, 2 * tp + fp + fn)]

\* len(texts) < 10
TooFewRowsNever(texts) == FALSE

TooFewRows(texts) == RunTotal(texts) < MinTrainRows

\* len(unique_labels) < 2, for pos labels 1 and neg labels 0
SingleClassNever(pos, neg) == pos + neg < 1

SingleClass(pos, neg) == Cardinality({b \in {0, 1} : IF b = 1 THEN pos > 0 ELSE neg > 0}) < 2

PredictiveOutcome(raised, at, message, value, sizes, done) ==
    [raised |-> raised, at |-> at, message |-> message, value |-> value,
     calls |-> sizes, steps |-> done]

\* the body of the try block: the outcomes it can have, an exception raised
\* at a step among them
TryTraining(table, model, nth) ==
    LET scored == TakeRuns(table.texts, TrainLimit)
        answer == Invoke(model, nth, scored)
        labels == LabelsOf(answer.scores)
        pos == CountLabel(labels, "POSITIVE")
        neg == RunTotal(labels) - pos
        called == <<RunTotal(scored)>>
        fails(at, message, done) ==
            PredictiveOutcome(TRUE, at, message, <<>>, called, done)
    IN IF answer.raised
       THEN {fails("score", ScorerError, <<>>)}
       ELSE IF SingleClass(pos, neg)
       THEN {PredictiveOutcome(FALSE, "", "", Skipped(SameSentimentReason), called, <<>>)}
       ELSE IF ~\E i \in 1..Len(scored) : HasWord(scored[i].text)
       THEN {fails("vectorize", EmptyVocabulary, <<"vectorize">>)}
       ELSE IF pos < 2 \/ neg < 2
       THEN {fails("split", TooFewMembers, <<"vectorize", "split">>)}
       ELSE UNION {{PredictiveOutcome(FALSE, "", "", Metrics(test, tp, tn), called,
                        <<"vectorize", "split", "fit", "predict", "evaluate">>) :
                       tp \in Guesses(test.pos), tn \in Guesses(test.neg)} :
                   test \in TestSplits(pos, neg)}

\* except Exception as e: the failure becomes a skipped result
Uncaught(outcome) == outcome

CaughtAfterScoring(outcome) ==
    IF outcome.raised /\ outcome.at # "score"
    THEN [outcome EXCEPT !.raised = FALSE, !.message = "",
                         !.value = Skipped(TrainingFailed(outcome.message))]
    ELSE outcome

Caught(outcome) ==
    IF outcome.raised
    THEN [outcome EXCEPT !.raised = FALSE, !.message = "",
                         !.value = Skipped(TrainingFailed(outcome.message))]
    ELSE outcome

\* the results predictive_analytics can give: [raised, at, message, value,
\* calls, steps], steps being the library steps it went through
predictive_analytics(table, model, nth) ==
    IF ~_find_text_column(table)
    THEN {PredictiveOutcome(FALSE, "", "", Skipped(NoTextReason), <<>>, <<>>)}
    ELSE IF TooFewRows(table.texts)
    THEN {PredictiveOutcome(FALSE, "", "", Skipped(TooFewReason), <<>>, <<>>)}
    ELSE {Caught(outcome) : outcome \in TryTraining(table, model, nth)}

(***************************************************************************)
(* Narratives and the report.  A narrative is the template chosen and the  *)
(* values put into it; percentages are in hundredths of a percent and      *)
(* accuracies in thousandths.                                              *)
(***************************************************************************)
prescriptive_analytics(summary) ==
    LET positive_pct == summary.descriptive_analytics.positive_percentage
        negative_pct == summary.descriptive_analytics.negative_percentage
    IN IF negative_pct > 5000 THEN "High negative sentiment detected."
       ELSE IF positive_pct > 7000 THEN "Strong positive sentiment."
       ELSE "Sentiment is mixed."

_generate_narrative(section, data) ==
    CASE section = "descriptive" ->
            [text |-> "Analysis of records reveals a sentiment distribution",
             args |-> <<data.total_records, data.positive_percentage, data.negative_percentage,
                        IF data.positive_percentage > data.negative_percentage
                        THEN "favorable" ELSE "concerning",
                        IF data.positive_percentage > 7000 THEN "celebration"
                        ELSE IF data.negative_percentage > 4000 THEN "attention"
                        ELSE "monitoring">>]
      [] section = "diagnostic" ->
            IF data.negative_keywords # <<>>
            THEN [text |-> "Root cause analysis identifies key negative indicators",
                  args |-> <<SubSeq(data.negative_keywords, 1,
                                    Min(3, Len(data.negative_keywords))),
                             Len(data.correlation_insights),
                             IF data.correlation_insights # <<>>
                             THEN "structured" ELSE "independent">>]
            ELSE [text |-> "Diagnostic analysis completed with limited negative indicators detected.",
                  args |-> <<>>]
      [] section = "predictive" ->
            IF data.status = "trained"
            THEN [text |-> "Predictive model successfully trained",
                  args |-> <<data.accuracy, data.f1_score,
                             IF data.accuracy > 800 THEN "strong" ELSE "moderate",
                             IF data.accuracy > 850 THEN "exceeds" ELSE "meets">>]
            ELSE [text |-> "Predictive modeling skipped due to insufficient training data. Minimum 10 text records required.",
                  args |-> <<>>]
      [] section = "prescriptive" ->
            IF data.negative_percentage > 5000
            THEN [text |-> "Strategic intervention required.", args |-> <<>>]
            ELSE IF data.positive_percentage > 7000
            THEN [text |-> "Momentum preservation strategy advised.", args |-> <<>>]
            ELSE [text |-> "Balanced optimization approach recommended.", args |-> <<>>]
      [] OTHER ->
            [text |-> "Analysis complete with insights generated from statistical modeling.",
             args |-> <<>>]

\* the totals for which the double product total * 0.7 falls just short of
\* the integer 7 * total / 10, so that int() gives one less (totals to 1000)
ShortOfSevenTenths ==
    {90, 170, 180, 330, 340, 350, 360, 650, 660, 670, 680, 690, 700, 710, 720, 730}

\* int(total * 0.7), int(total * 0.85), int(total * 0.95), int(total * 1.05), ...
IntOfProduct(total, hundredths) ==
    IF hundredths = 70 /\ total \in ShortOfSevenTenths
    THEN (total * hundredths) \div 100 - 1
    ELSE (total * hundredths) \div 100

_create_bi_overview(eda, descriptive) ==
    LET sentiment_dist == eda.sentiment_distribution
        composition == [i \in 1..Len(sentiment_dist) |->
                           [label |-> sentiment_dist[i].label, value |-> sentiment_dist[i].count]]
        total_records == eda.total_records
        word_freq == eda.word_frequency
        distribution == [i \in 1..Min(8, Len(word_freq)) |->
                            [category |-> word_freq[i].word, value |-> word_freq[i].count]]
    IN [composition |-> IF composition = <<>>
                        THEN <<[label |-> "Unknown", value |-> 100]>> ELSE composition,
        trend |-> <<[name |-> "Q1", value |-> IntOfProduct(total_records, 70)],
                    [name |-> "Q2", value |-> IntOfProduct(total_records, 85)],
                    [name |-> "Q3", value |-> IntOfProduct(total_records, 95)],
                    [name |-> "Q4", value |-> total_records]>>,
        distribution |-> IF distribution = <<>>
                         THEN <<[category |-> <<"No data">>, value |-> 0]>> ELSE distribution]

_create_kpis(eda, descriptive) ==
    LET pos_pct == descriptive.positive_percentage
        neg_pct == descriptive.negative_percentage
    IN <<[label |-> "Total Records", value |-> eda.total_records,
          change |-> "+15%", trend |-> "up"],
         [label |-> "Avg Text Length", value |-> eda.average_text_length,
          change |-> "+8%", trend |-> "up"],
         [label |-> "Positive Rate", value |-> pos_pct,
          change |-> <<IF pos_pct > 5000 THEN "+" ELSE "", pos_pct - 5000>>,
          trend |-> IF pos_pct > 5000 THEN "up" ELSE "down"],
         [label |-> "Negative Rate", value |-> neg_pct,
          change |-> <<IF neg_pct > 3000 THEN "+" ELSE "", neg_pct - 3000>>,
          trend |-> IF neg_pct < 3000 THEN "down" ELSE "up"]>>

\* the baseline forecast whatever the status of the predictive stage
BaselineForecast(predictive, total_records) ==
    <<[period |-> "Current", predicted |-> total_records],
      [period |-> "Month +1", predicted |-> (total_records * 105) \div 100],
      [period |-> "Month +2", predicted |-> (total_records * 112) \div 100],
      [period |-> "Month +3", predicted |-> (total_records * 118) \div 100]>>

\* a forecast value is int(base * (growth / 100000) ** periods), kept as its
\* three factors; growth = 100000 + 15 * accuracy is 1.0 + accuracy * 0.15
_create_forecast(predictive, total_records) ==
    IF predictive.status # "trained"
    THEN <<[period |-> "Current", predicted |-> total_records],
           [period |-> "Month +1", predicted |-> IntOfProduct(total_records, 105)],
           [period |-> "Month +2", predicted |-> IntOfProduct(total_records, 112)],
           [period |-> "Month +3", predicted |-> IntOfProduct(total_records, 118)]>>
    ELSE LET growth_rate == 100000 + 15 * predictive.accuracy
             point(name, k) ==
                 [period |-> name,
                  predicted |-> [base |-> total_records, growth |-> growth_rate, periods |-> k]]
         IN <<point("Current", 0), point("Month +1", 1), point("Month +2", 2),
              point("Month +3", 3), point("Month +4", 4)>>

_create_recommendations(descriptive, diagnostic) ==
    LET pos_pct == descriptive.positive_percentage
        neg_pct == descriptive.negative_percentage
        correlations == diagnostic.correlation_insights
    IN <<IF neg_pct > 4000
         THEN [action |-> "Implement Customer Feedback Loop", priority |-> "High"]
         ELSE [action |-> "Scale Positive Messaging", priority |-> "Medium"],
         IF Len(correlations) > 2
         THEN [action |-> "Leverage Feature Relationships", priority |-> "High"]
         ELSE [action |-> "Enhance Data Collection", priority |-> "Medium"],
         [action |-> "Establish Continuous Monitoring",
          priority |-> IF pos_pct > 6000 THEN "Low" ELSE "High"]>>

RECURSIVE PadCorrelations(_)
PadCorrelations(formatted) ==
    IF Len(formatted) < 3
    THEN PadCorrelations(Append(formatted,
             [factor |-> <<>>, relationship |-> "neutral", strength |-> 0]))
    ELSE formatted

_format_correlations(correlation_insights) ==
    PadCorrelations([i \in 1..Len(correlation_insights) |->
        [factor |-> correlation_insights[i].pair,
         relationship |-> IF correlation_insights[i].correlation > 0
                          THEN "positive" ELSE "negative",
         strength |-> Abs(correlation_insights[i].correlation)]])

Disclaimer == "Recommendations are generated through statistical analysis"

\* the mapping run_full_analysis returns once the four stages have returned
AssembleReport(eda, descriptive, diagnostic, predictive) ==
    LET descriptive_narrative ==
            _generate_narrative("descriptive",
                [total_records |-> eda.total_records,
                 positive_percentage |-> descriptive.positive_percentage,
                 negative_percentage |-> descriptive.negative_percentage])
        diagnostic_narrative == _generate_narrative("diagnostic", diagnostic)
        predictive_narrative == _generate_narrative("predictive", predictive)
        prescriptive_text == prescriptive_analytics([descriptive_analytics |-> descriptive])
        prescriptive_narrative == _generate_narrative("prescriptive", descriptive)
    IN [biOverview |-> _create_bi_overview(eda, descriptive),
        descriptive |->
            [kpis |-> _create_kpis(eda, descriptive),
             narrative |-> descriptive_narrative,
             chartData |-> eda.word_frequency],
        diagnostic |->
            [narrative |-> diagnostic_narrative,
             correlations |-> _format_correlations(diagnostic.correlation_insights)],
        predictive |->
            [narrative |-> predictive_narrative,
             forecast |-> _create_forecast(predictive, eda.total_records),
             confidence |-> IF predictive.status = "trained" THEN predictive.accuracy ELSE 650,
             modelExplanation |->
                 IF predictive.status = "trained"
                 THEN [text |-> "Logistic Regression classifier trained",
                       args |-> <<eda.total_records, predictive.accuracy, predictive.f1_score>>]
                 ELSE [text |-> "Predictive model requires minimum dataset size for training reliability.",
                       args |-> <<>>]],
        prescriptive |->
            [narrative |-> prescriptive_narrative,
             recommendations |-> _create_recommendations(descriptive, diagnostic),
             disclaimer |-> Disclaimer]]

(***************************************************************************)
(* run_full_analysis, one action per stage call and one for the assembly.  *)
(***************************************************************************)
Ok == <<"O", "k">>
No == <<"n", "o">>
A == <<"a">>
RunTexts == {Ok, No, A}
RunLens == {1, 2, 9, 199, 499}

OneRun == {<<[text |-> t, n |-> k]>> : t \in RunTexts, k \in RunLens}
TwoRuns == {<<[text |-> t, n |-> k], [text |-> u, n |-> m]>> :
               t \in RunTexts, u \in RunTexts, k \in RunLens, m \in RunLens}

NoCorrelations == [numeric |-> 1, corr |-> <<>>]
ThreeColumns ==
    [numeric |-> 3,
     corr |-> <<[a |-> 1, b |-> 2, value |-> 1000], [a |-> 1, b |-> 3, value |-> 0],
                [a |-> 2, b |-> 3, value |-> -437]>>]
NumericSides == {NoCorrelations, ThreeColumns}
\* two numeric columns, and four of which one is constant (NaN, filled with 0)
TwoColumns == [numeric |-> 2, corr |-> <<[a |-> 1, b |-> 2, value |-> -1000]>>]
FourColumns ==
    [numeric |-> 4,
     corr |-> <<[a |-> 1, b |-> 2, value |-> 250], [a |-> 1, b |-> 3, value |-> -250],
                [a |-> 1, b |-> 4, value |-> 0], [a |-> 2, b |-> 3, value |-> 999],
                [a |-> 2, b |-> 4, value |-> 0], [a |-> 3, b |-> 4, value |-> 0]>>]

TextTable(runs, side) ==
    [text_column |-> TRUE, records |-> RunTotal(runs), texts |-> runs,
     numeric |-> side.numeric, corr |-> side.corr]
NumberTable(rows, side) ==
    [text_column |-> FALSE, records |-> rows, texts |-> <<>>,
     numeric |-> side.numeric, corr |-> side.corr]

\* 160 texts of two kinds, split so that each percentage is a tie x.xx5
TieRuns ==
    {<<[text |-> Ok, n |-> k], [text |-> No, n |-> 160 - k]>> : k \in {23, 49, 73}}

\* a table with a text column and no row: a CSV of a header line alone, or
\* rows that were all null before the cleaner dropped them
NoRows == <<>>

RunTables ==
    {TextTable(NoRows, side) : side \in NumericSides}
    \cup
    {TextTable(runs, side) :
        runs \in OneRun \cup {r \in TwoRuns : r[1].text # r[2].text} \cup TieRuns,
        side \in NumericSides}
    \cup {NumberTable(rows, side) : rows \in RunLens \cup {7, 12, 90}, side \in NumericSides}
    \cup {NumberTable(rows, side) : rows \in {2, 12}, side \in {TwoColumns, FourColumns}}

TextsOf(table) == {table.texts[i].text : i \in 1..Len(table.texts)}

Stages == <<"eda", "descriptive", "diagnostic", "predictive">>

ScorersFor(table) ==
    {[score |-> sc, failAt |-> k] : sc \in [TextsOf(table) -> RawLabels], k \in 0..Len(Stages)}

InitRun ==
    /\ inTable \in RunTables
    /\ inModel \in ScorersFor(inTable)
    /\ ppc = "eda"
    /\ outs = [eda |-> NotRun, descriptive |-> NotRun, diagnostic |-> NotRun,
               predictive |-> NotRun]
    /\ report = NoReport
    /\ failure = ""
    /\ calls = <<>>
    /\ steps = <<>>
    /\ df = NoFrame
    /\ cleaned = NoFrame
    /\ TextIdle
    /\ LoadIdle
    /\ WebIdle

Logged(stage, sizes) == [i \in 1..Len(sizes) |-> [stage |-> stage, size |-> sizes[i]]]

\* one of the first three stage calls: the stage returns into its local, or
\* raises and run_full_analysis raises with it
StageStep(stage, result, next) ==
    /\ ppc = stage
    /\ calls' = calls \o Logged(stage, result.calls)
    /\ IF result.raised
       THEN /\ ppc' = "raised"
            /\ failure' = result.message
            /\ UNCHANGED outs
       ELSE /\ ppc' = next
            /\ outs' = [outs EXCEPT ![stage] = result.value]
            /\ UNCHANGED failure
    /\ UNCHANGED <<inTable, inModel, report, steps, cleanVars, loadVars, webVars>>

RunEda == StageStep("eda", perform_eda(inTable, inModel, Len(calls) + 1), "descriptive")

RunDescriptive ==
    StageStep("descriptive", descriptive_analytics(inTable, inModel, Len(calls) + 1),
              "diagnostic")

RunDiagnostic ==
    StageStep("diagnostic", diagnostic_analytics(inTable, inModel, Len(calls) + 1),
              "predictive")

RunPredictive ==
    /\ ppc = "predictive"
    /\ \E result \in predictive_analytics(inTable, inModel, Len(calls) + 1) :
          /\ calls' = calls \o Logged("predictive", result.calls)
          /\ steps' = result.steps
          /\ IF result.raised
             THEN /\ ppc' = "raised"
                  /\ failure' = result.message
                  /\ UNCHANGED outs
             ELSE /\ ppc' = "assemble"
                  /\ outs' = [outs EXCEPT !.predictive = result.value]
                  /\ UNCHANGED failure
    /\ UNCHANGED <<inTable, inModel, report, cleanVars, loadVars, webVars>>

Assemble ==
    /\ ppc = "assemble"
    /\ report' = AssembleReport(outs.eda, outs.descriptive, outs.diagnostic, outs.predictive)
    /\ ppc' = "returned"
    /\ UNCHANGED <<inTable, inModel, outs, failure, calls, steps, cleanVars, loadVars, webVars>>

NextRun == RunEda \/ RunDescriptive \/ RunDiagnostic \/ RunPredictive \/ Assemble

SpecRun == InitRun /\ [][NextRun]_vars

Finished == ppc \in {"assemble", "returned"}

\* the scorer raised when the predictive stage invoked it
ScorerFailedInPredictive ==
    /\ calls # <<>>
    /\ calls[Len(calls)].stage = "predictive"
    /\ inModel.failAt = Len(calls)

\* the binary labels of the texts the predictive stage scores
TrainLabels ==
    LET scored == TakeRuns(inTable.texts, TrainLimit)
    IN [i \in 1..Len(scored) |->
           [positive |-> _sentiment_label(inModel.score[scored[i].text]) = "POSITIVE",
            n |-> scored[i].n]]
SomePositive == \E i \in 1..Len(TrainLabels) : TrainLabels[i].positive
SomeNonPositive == \E i \in 1..Len(TrainLabels) : ~TrainLabels[i].positive

ReportKeys ==
    [biOverview |-> {"composition", "trend", "distribution"},
     descriptive |-> {"kpis", "narrative", "chartData"},
     diagnostic |-> {"narrative", "correlations"},
     predictive |-> {"narrative", "forecast", "confidence", "modelExplanation"},
     prescriptive |-> {"narrative", "recommendations", "disclaimer"}]

\* C1: whatever the table and the labels, when the scorer does not raise
\* run_full_analysis returns, and what it returns has exactly the five
\* sections, each with exactly its own sub-keys.
C1_ReportShape ==
    /\ inModel.failAt = 0 => ppc # "raised"
    /\ ppc = "returned" =>
          /\ DOMAIN report = DOMAIN ReportKeys
          /\ \A section \in DOMAIN ReportKeys :
                DOMAIN report[section] = ReportKeys[section]

\* a report returned for a table on which the classifier was trained
C1_Witness ==
    /\ ppc = "returned"
    /\ inModel.failAt = 0
    /\ outs.predictive.status = "trained"
    /\ DOMAIN report.predictive = ReportKeys.predictive

\* C3: predictive_analytics never raises: run_full_analysis raises only out
\* of an earlier stage; the status is "trained" or "skipped"; and when the
\* scorer, the vectoriser or the split failed the status is "skipped" and the
\* reason carries the message of the failure.
C3_PredictiveNeverRaises ==
    /\ ppc = "raised" => outs.diagnostic = NotRun
    /\ Finished =>
          /\ outs.predictive.status \in {"trained", "skipped"}
          /\ ScorerFailedInPredictive =>
                outs.predictive = Skipped(TrainingFailed(ScorerError))
          /\ steps = <<"vectorize">> =>
                outs.predictive = Skipped(TrainingFailed(EmptyVocabulary))
          /\ steps = <<"vectorize", "split">> =>
                outs.predictive = Skipped(TrainingFailed(TooFewMembers))

\* a report returned although the scorer raised in the predictive stage
C3_Witness ==
    /\ ppc = "returned"
    /\ ScorerFailedInPredictive
    /\ outs.predictive.status = "skipped"

PredictiveCalls == SelectSeq(calls, LAMBDA c : c.stage = "predictive")

\* C6 as stated: every table of fewer than 10 rows is skipped for want of
\* text records, the scorer not being invoked by the predictive stage.
C6_FewRowsSkipped ==
    Finished /\ inTable.records < MinTrainRows =>
        /\ outs.predictive = Skipped(TooFewReason)
        /\ PredictiveCalls = <<>>

\* C6 amended: every table with a text column and fewer than 10 rows is
\* skipped for want of text records, the scorer not being invoked by the
\* predictive stage (a table with no text column is skipped for that).
C6_FewTextRowsSkipped ==
    Finished /\ inTable.text_column /\ inTable.records < MinTrainRows =>
        /\ outs.predictive = Skipped(TooFewReason)
        /\ PredictiveCalls = <<>>

\* nine rows of text, the most that is too few
C6_Witness ==
    /\ Finished
    /\ inTable.text_column
    /\ inTable.records = MinTrainRows - 1
    /\ outs.predictive = Skipped(TooFewReason)

\* C7: ten or more rows of text with at least one POSITIVE and at least one
\* other label among the scored ones give status "trained" with the four
\* metrics between 0 and 1, however the rows split between the two classes.
C7_MixedLabelsTrained ==
    (/\ Finished
     /\ inTable.text_column
     /\ inTable.records >= MinTrainRows
     /\ ~ScorerFailedInPredictive
     /\ SomePositive
     /\ SomeNonPositive)
    => /\ outs.predictive.status = "trained"
       /\ \A metric \in {"accuracy", "precision", "recall", "f1_score"} :
             outs.predictive[metric] \in 0..1000

\* C8: ten or more rows of text whose scored labels are all POSITIVE, or all
\* not POSITIVE, are skipped with the same-sentiment reason, and nothing is
\* vectorised, split or trained.
C8_SameSentimentSkipped ==
    (/\ Finished
     /\ inTable.text_column
     /\ inTable.records >= MinTrainRows
     /\ ~ScorerFailedInPredictive
     /\ ~(SomePositive /\ SomeNonPositive))
    => /\ outs.predictive = Skipped(SameSentimentReason)
       /\ steps = <<>>

\* two texts the scorer labels alike, in a table of ten rows or more
C8_Witness ==
    /\ Finished
    /\ inTable.records >= MinTrainRows
    /\ Len(inTable.texts) = 2
    /\ ~ScorerFailedInPredictive
    /\ ~SomePositive
    /\ PredictiveCalls # <<>>
    /\ outs.predictive = Skipped(SameSentimentReason)

(***************************************************************************)
(* The request handlers.  get_model and run_full_analysis are here called  *)
(* by one request at a time.                                               *)
(***************************************************************************)
LoadError == "model load failed"

\* get_model() with no other thread about: loads says whether pipeline(...)
\* succeeds should it be called
get_model(handle, cache, built, loads) ==
    IF handle # None
    THEN [raised |-> FALSE, handle |-> handle, cache |-> cache, built |-> built]
    ELSE IF cache # None
    THEN [raised |-> FALSE, handle |-> cache, cache |-> cache, built |-> built]
    ELSE IF loads
    THEN [raised |-> FALSE, handle |-> built + 1, cache |-> built + 1, built |-> built + 1]
    ELSE [raised |-> TRUE, handle |-> handle, cache |-> cache, built |-> built]

\* how run_full_analysis can end on a table:
\* [table, ppc, outs, report, failure, calls, steps]
RunEnd(table, how, locals, result, message, log, done) ==
    [table |-> table, ppc |-> how, outs |-> locals, report |-> result,
     failure |-> message, calls |-> log, steps |-> done]

MissingField(key) ==
    IF key = "text" THEN "Missing 'text' in request body."
    ELSE "Missing 'data' in request body."

\* the stage results are bound one after the other, as the locals of
\* run_full_analysis are
run_full_analysis(table, model) ==
    LET none == [eda |-> NotRun, descriptive |-> NotRun, diagnostic |-> NotRun,
                 predictive |-> NotRun]
        AfterPredictive(local3, log3, eda, descriptive, diagnostic, predictive) ==
            IF predictive.raised
            THEN RunEnd(table, "raised", local3, NoReport, predictive.message,
                        log3 \o Logged("predictive", predictive.calls), predictive.steps)
            ELSE RunEnd(table, "returned", [local3 EXCEPT !.predictive = predictive.value],
                        AssembleReport(eda.value, descriptive.value, diagnostic.value,
                                       predictive.value),
                        "", log3 \o Logged("predictive", predictive.calls),
                        predictive.steps)
        AfterDiagnostic(log2, eda, descriptive, diagnostic) ==
            IF diagnostic.raised
            THEN {RunEnd(table, "raised",
                         [none EXCEPT !.eda = eda.value, !.descriptive = descriptive.value],
                         NoReport, diagnostic.message,
                         log2 \o Logged("diagnostic", diagnostic.calls), <<>>)}
            ELSE UNION {{AfterPredictive(local3, log3, eda, descriptive, diagnostic, predictive) :
                            predictive \in predictive_analytics(table, model, Len(log3) + 1)} :
                     local3 \in {[none EXCEPT !.eda = eda.value,
                                              !.descriptive = descriptive.value,
                                              !.diagnostic = diagnostic.value]},
                     log3 \in {log2 \o Logged("diagnostic", diagnostic.calls)}}
        AfterDescriptive(log1, eda, descriptive) ==
            IF descriptive.raised
            THEN {RunEnd(table, "raised", [none EXCEPT !.eda = eda.value], NoReport,
                         descriptive.message,
                         log1 \o Logged("descriptive", descriptive.calls), <<>>)}
            ELSE UNION {AfterDiagnostic(log2, eda, descriptive, diagnostic) :
                     log2 \in {log1 \o Logged("descriptive", descriptive.calls)},
                     diagnostic \in {diagnostic_analytics(table, model,
                         Len(log1) + Len(descriptive.calls) + 1)}}
        AfterEda(eda) ==
            IF eda.raised
            THEN {RunEnd(table, "raised", none, NoReport, eda.message,
                         Logged("eda", eda.calls), <<>>)}
            ELSE UNION {AfterDescriptive(log1, eda, descriptive) :
                     log1 \in {Logged("eda", eda.calls)},
                     descriptive \in {descriptive_analytics(table, model,
                         Len(eda.calls) + 1)}}
    IN UNION {AfterEda(eda) : eda \in {perform_eda(table, model, 1)}}

NoRun == RunEnd([absent |-> TRUE], "idle", <<>>, NoReport, "", <<>>, <<>>)

\* what the stages read of a DataFrame whose text column holds no null
View(frame) ==
    LET names == {frame.columns[k] : k \in 1..Len(frame.columns)}
        numeric == Cardinality(names \ {"comment"})
    IN [text_column |-> "comment" \in names,
        records |-> Len(frame.rows),
        texts |-> IF "comment" \in names
                  THEN [i \in 1..Len(frame.rows) |->
                           [text |-> frame.rows[i].cells["comment"].s, n |-> 1]]
                  ELSE <<>>,
        numeric |-> numeric,
        corr |-> <<>>]

\* a handler's result: the response, what it invoked, the model handle and
\* cache it leaves, and how run_full_analysis ended if it ran
Handled(status, body, did, got, run, model) ==
    [status |-> status, body |-> body, invoked |-> did,
     handle |-> got.handle, cache |-> got.cache, built |-> got.built,
     run |-> run, model |-> model]

ErrorBody(text, message) == [error |-> text, message |-> message]

\* an exception no handler catches: Flask answers 500
Unhandled(got) ==
    Handled(500, ErrorBody("Internal Server Error", ""), <<>>, got, NoRun, NotRun)

\* "not payload": None, {}, [], "" and 0 are false
Falsy(payload) == payload.kind = "none" \/ payload.empty

\* key in payload: a key of an object, an item of an array, a substring of a
\* string; a number is not iterable
Contains(payload, key) == key \in payload.members

\* payload.get(key): only an object has get
HasGet(payload) == payload.kind = "object"

\* the first lines of analyze_text and analyze_json_dataset: the answer to a
\* payload that gets no further, or "pass"
CheckPayload(payload, key, got) ==
    IF Falsy(payload)
    THEN Handled(400, ErrorBody(MissingField(key), ""), <<>>, got, NoRun, NotRun)
    ELSE IF payload.kind = "number" THEN Unhandled(got)
    ELSE IF ~Contains(payload, key)
    THEN Handled(400, ErrorBody(MissingField(key), ""), <<>>, got, NoRun, NotRun)
    ELSE IF ~HasGet(payload) THEN Unhandled(got)
    ELSE [status |-> 0]

MaskedAnalyticsError(endpoint, message) ==
    ErrorBody("Failed to generate analytics report.", "")

\* the body of the 500 answer of the two table endpoints: the text and str(e)
AnalyticsError(endpoint, message) ==
    IF endpoint = "/analyze"
    THEN ErrorBody("ANALYTICS_ERROR: ", message)
    ELSE ErrorBody("Failed to generate analytics report: ", message)

\* the second try block of the two table endpoints
AnalyzeFrame(endpoint, frame, got, loads, model) ==
    LET loaded == get_model(got.handle, got.cache, got.built, loads)
        Ran(run) ==
            IF run.ppc = "raised"
            THEN Handled(500, AnalyticsError(endpoint, run.failure),
                         <<"clean_dataframe", "get_model", "run_full_analysis">>,
                         loaded, run, model)
            ELSE Handled(200, run.report,
                         <<"clean_dataframe", "get_model", "run_full_analysis">>,
                         loaded, run, model)
    IN IF loaded.raised
       THEN {Handled(500, AnalyticsError(endpoint, LoadError),
                     <<"clean_dataframe", "get_model">>, loaded, NoRun, model)}
       ELSE UNION {{Ran(run) : run \in run_full_analysis(table, model)} :
                table \in {View(clean_dataframe(frame))}}

analyze_text(req, got, loads, model) ==
    LET checked == CheckPayload(req.payload, "text", got)
        cleaned_text == clean_text(req.text)
        loaded == get_model(got.handle, got.cache, got.built, loads)
        failed(did, state) ==
            Handled(500, ErrorBody("Failed to analyze text.", ""), did, state, NoRun, model)
    IN IF checked.status # 0 THEN checked
       ELSE IF req.field # "string" \/ Strip(req.text) = <<>>
       THEN Handled(400, ErrorBody("'text' must be a non-empty string.", ""),
                    <<>>, got, NoRun, NotRun)
       ELSE IF loaded.raised THEN failed(<<"clean_text", "get_model">>, loaded)
       ELSE IF model.failAt = 1 THEN failed(<<"clean_text", "get_model", "model">>, loaded)
       ELSE Handled(200,
                    [sentiment |-> IF model.score[cleaned_text] = NoLabel
                                   THEN "UNKNOWN" ELSE model.score[cleaned_text],
                     confidence |-> "score"],
                    <<"clean_text", "get_model", "model">>, loaded, NoRun, model)

analyze_dataset(req, got, loads, model) ==
    IF req.file = "absent"
    THEN {Handled(400, ErrorBody("Missing CSV file upload with key 'file'.", ""),
                  <<>>, got, NoRun, NotRun)}
    ELSE IF req.file = "unnamed"
    THEN {Handled(400, ErrorBody("Empty filename for uploaded file.", ""),
                  <<>>, got, NoRun, NotRun)}
    ELSE IF ~req.parses
    THEN {Handled(400, ErrorBody("Failed to parse CSV file.", ""), <<>>, got, NoRun, NotRun)}
    ELSE AnalyzeFrame("/analyze-dataset", req.frame, got, loads, model)

analyze_json_dataset(req, got, loads, model) ==
    LET checked == CheckPayload(req.payload, "data", got)
    IN IF checked.status # 0 THEN {checked}
       ELSE IF req.field # "list"
       THEN {Handled(400, ErrorBody("'data' must be a non-empty array.", ""),
                     <<>>, got, NoRun, NotRun)}
       ELSE IF ~req.parses
       THEN {Handled(400, ErrorBody("Failed to parse JSON data.", ""),
                     <<>>, got, NoRun, NotRun)}
       ELSE AnalyzeFrame("/analyze", req.frame, got, loads, model)

(***************************************************************************)
(* Requests.  A JSON body is [kind, empty, members]: what it is, whether   *)
(* it is empty (or zero), and which of "text" and "data" it holds as a     *)
(* key (object), an item (array) or a substring (string).                  *)
(***************************************************************************)
MaxRequests == 2

Body(kind, empty, members) == [kind |-> kind, empty |-> empty, members |-> members]

BadBodies(key) ==
    {Body("none", TRUE, {}), Body("object", TRUE, {}), Body("object", FALSE, {}),
     Body("array", TRUE, {}), Body("array", FALSE, {}), Body("array", FALSE, {key}),
     Body("string", FALSE, {key}), Body("number", TRUE, {}), Body("number", FALSE, {})}

Request(endpoint, payload, field, text, file, parses, frame) ==
    [endpoint |-> endpoint, payload |-> payload, field |-> field, text |-> text,
     file |-> file, parses |-> parses, frame |-> frame]

TextRequests ==
    {Request("/analyze-text", b, "absent", <<>>, "absent", FALSE, NoFrame) :
        b \in BadBodies("text")}
    \cup {Request("/analyze-text", Body("object", FALSE, {"text"}), f, <<>>,
                  "absent", FALSE, NoFrame) : f \in {"number", "null", "list"}}
    \cup {Request("/analyze-text", Body("object", FALSE, {"text"}), "string", t,
                  "absent", FALSE, NoFrame) :
             t \in {<<>>, <<SP, TAB>>, Ok, <<SP, "n", "o", NUL>>}}

\* rows of a comment and a value each
CommentRows(comments) ==
    [i \in 1..Len(comments) |->
        [c \in {"comment", "value"} |-> IF c = "comment" THEN Str(comments[i]) ELSE Num(i)]]

\* the tables of the requests: three rows, two of them alike once the
\* strings are normalised; ten rows of two texts; two rows of a number
RequestFrames ==
    {NewFrame(<<"comment", "value">>, CommentRows(comments)) :
        comments \in {<<Ok, <<SP, "O", "k">>, No>>,
                      <<Ok, Ok, Ok, Ok, Ok, No, No, No, No, No>>}}
    \cup {NewFrame(<<"value">>, <<[c \in {"value"} |-> Num(1)], [c \in {"value"} |-> Null]>>)}

DatasetRequests ==
    {Request("/analyze-dataset", Body("none", TRUE, {}), "absent", <<>>, f, FALSE, NoFrame) :
        f \in {"absent", "unnamed", "named"}}
    \cup {Request("/analyze-dataset", Body("none", TRUE, {}), "absent", <<>>, "named", TRUE, fr) :
             fr \in RequestFrames}

JsonRequests ==
    {Request("/analyze", b, "absent", <<>>, "absent", FALSE, NoFrame) : b \in BadBodies("data")}
    \cup {Request("/analyze", Body("object", FALSE, {"data"}), f, <<>>, "absent", FALSE, NoFrame) :
             f \in {"string", "number", "null", "object", "empty list", "list"}}
    \cup {Request("/analyze", Body("object", FALSE, {"data"}), "list", <<>>, "absent", TRUE, fr) :
             fr \in RequestFrames}

\* the scorers a request can meet: a score for each text it may be given
ScorersOver(texts) ==
    {[score |-> sc, failAt |-> k] :
        sc \in {[t \in texts |-> "POSITIVE"],
                [t \in texts |-> IF t = Ok THEN "POSITIVE" ELSE "negative"],
                [t \in texts |-> NoLabel]},
        k \in 0..Len(Stages)}

\* the texts the scorer can be given on a request
RequestTexts(req) ==
    IF req.endpoint = "/analyze-text" THEN {clean_text(req.text)}
    ELSE IF req.frame = NoFrame \/ \A k \in 1..Len(req.frame.columns) :
                                     req.frame.columns[k] # "comment"
    THEN {}
    ELSE {clean_text(req.frame.rows[i].cells["comment"].s) : i \in 1..Len(req.frame.rows)}

RequestScorers(req) == ScorersOver(RequestTexts(req))

InitWeb ==
    /\ WebIdle
    /\ RunIdle
    /\ SENTIMENT_MODEL = None
    /\ lru = None
    /\ instances = 0
    /\ tpc = <<>>
    /\ tlocal = <<>>
    /\ tgot = <<>>
    /\ df = NoFrame
    /\ cleaned = NoFrame
    /\ TextIdle

Current == [handle |-> SENTIMENT_MODEL, cache |-> lru, built |-> instances]

\* the handler has answered: its response and what it left behind
Answer(req, result) ==
    /\ request' = req
    /\ response' = [status |-> result.status, body |-> result.body]
    /\ invoked' = result.invoked
    /\ served' = served + 1
    /\ SENTIMENT_MODEL' = result.handle
    /\ lru' = result.cache
    /\ instances' = result.built
    /\ inModel' = result.model
    /\ inTable' = result.run.table
    /\ ppc' = result.run.ppc
    /\ outs' = result.run.outs
    /\ report' = result.run.report
    /\ failure' = result.run.failure
    /\ calls' = result.run.calls
    /\ steps' = result.run.steps
    /\ UNCHANGED <<tpc, tlocal, tgot, cleanVars>>

AnalyzeText ==
    /\ served < MaxRequests
    /\ \E req \in TextRequests, loads \in BOOLEAN :
          \E model \in RequestScorers(req) :
              \E result \in {analyze_text(req, Current, loads, model)} :
                  Answer(req, result)

AnalyzeDataset ==
    /\ served < MaxRequests
    /\ \E req \in DatasetRequests, loads \in BOOLEAN :
          \E model \in RequestScorers(req) :
              \E result \in analyze_dataset(req, Current, loads, model) :
                  Answer(req, result)

AnalyzeJsonDataset ==
    /\ served < MaxRequests
    /\ \E req \in JsonRequests, loads \in BOOLEAN :
          \E model \in RequestScorers(req) :
              \E result \in analyze_json_dataset(req, Current, loads, model) :
                  Answer(req, result)

Next == AnalyzeText \/ AnalyzeDataset \/ AnalyzeJsonDataset

Init == InitWeb

Spec == Init /\ [][Next]_vars

TableEndpoints == {"/analyze", "/analyze-dataset"}

\* the last request was a table request on which run_full_analysis ran and
\* the scorer raised: the stage whose invocation raised, "" otherwise
FailedStage ==
    IF /\ served > 0
       /\ request.endpoint \in TableEndpoints
       /\ ppc \in {"raised", "returned"}
       /\ calls # <<>>
       /\ inModel.failAt = Len(calls)
    THEN calls[Len(calls)].stage
    ELSE ""

\* C4: when the scorer raises in the eda, descriptive or diagnostic stage,
\* run_full_analysis raises and returns no report and the table endpoint
\* answers 500 with the message of the failure in the body; when it raises
\* in the predictive stage the endpoint answers 200 with a full report.
C4_StageFailurePropagates ==
    /\ FailedStage \in {"eda", "descriptive", "diagnostic"} =>
          /\ ppc = "raised"
          /\ report = NoReport
          /\ response.status = 500
          /\ response.body.message = ScorerError
    /\ FailedStage = "predictive" =>
          /\ ppc = "returned"
          /\ response.status = 200
          /\ response.body = report
          /\ DOMAIN report = DOMAIN ReportKeys
          /\ outs.predictive.status = "skipped"

\* both endpoints have answered a failure: this one 500 to a scorer that
\* raised in the diagnostic stage
C4_Witness ==
    /\ FailedStage = "diagnostic"
    /\ request.endpoint = "/analyze-dataset"
    /\ response.status = 500
    /\ response.body.message = ScorerError

\* a request the claim counts as failing validation or parsing
InvalidRequest(req) ==
    CASE req.endpoint = "/analyze-text" ->
            \/ ~(req.payload.kind = "object" /\ "text" \in req.payload.members)
            \/ req.field # "string"
            \/ Strip(req.text) = <<>>
      [] req.endpoint = "/analyze-dataset" ->
            \/ req.file \in {"absent", "unnamed"}
            \/ ~req.parses
      [] req.endpoint = "/analyze" ->
            \/ ~(req.payload.kind = "object" /\ "data" \in req.payload.members)
            \/ req.field # "list"
            \/ ~req.parses

\* C5: a request that fails validation or parsing is answered 400, and on it
\* neither the cleaner nor get_model nor run_full_analysis is invoked and the
\* model handle stays as it was.
C5_InvalidRejected ==
    [][served' = served + 1 /\ InvalidRequest(request') =>
          /\ response'.status = 400
          /\ invoked' = <<>>
          /\ SENTIMENT_MODEL' = SENTIMENT_MODEL]_vars

\* the part of C5 about what is invoked: on such a request nothing is, and
\* the handle stays, whatever the status of the answer
C5_NothingInvoked ==
    [][served' = served + 1 /\ InvalidRequest(request') =>
          /\ response'.status \in {400, 500}
          /\ invoked' = <<>>
          /\ SENTIMENT_MODEL' = SENTIMENT_MODEL]_vars

(***************************************************************************)
(* Further properties of the stages and of the report.                     *)
(***************************************************************************)
\* the labels of the texts the first three stages score, as runs
ScoredLabels ==
    LET scored == TakeRuns(inTable.texts, ScoreLimit)
    IN [i \in 1..Len(scored) |->
           [label |-> _sentiment_label(inModel.score[scored[i].text]), n |-> scored[i].n]]

DescriptiveRan == outs # <<>> /\ outs.descriptive # NotRun /\ inTable.text_column

\* a percentage in hundredths is count / total * 100 to the nearest hundredth
IsPercentOf(pct, count, total) ==
    LET d == pct * total - count * 10000
    IN 2 * d <= total /\ -2 * d <= total

\* C12: the two percentages of descriptive_analytics add up to at most 100,
\* to 100 only when every scored label is POSITIVE or NEGATIVE, and each is
\* its label's count over the number of scored texts, which is at most 200.
C12_PercentagesWithin100 ==
    DescriptiveRan /\ RunTotal(ScoredLabels) > 0 =>
        LET pos == outs.descriptive.positive_percentage
            neg == outs.descriptive.negative_percentage
            total == RunTotal(ScoredLabels)
        IN /\ total <= 200
           /\ IsPercentOf(pos, CountLabel(ScoredLabels, "POSITIVE"), total)
           /\ IsPercentOf(neg, CountLabel(ScoredLabels, "NEGATIVE"), total)
           /\ pos + neg <= 10000
           /\ pos + neg = 10000 =>
                 \A i \in 1..Len(ScoredLabels) :
                     ScoredLabels[i].label \in {"POSITIVE", "NEGATIVE"}

\* C12 but for the sum: what of it holds
C12_PercentagesOfCounts ==
    DescriptiveRan /\ RunTotal(ScoredLabels) > 0 =>
        LET pos == outs.descriptive.positive_percentage
            neg == outs.descriptive.negative_percentage
            total == RunTotal(ScoredLabels)
        IN /\ total <= 200
           /\ IsPercentOf(pos, CountLabel(ScoredLabels, "POSITIVE"), total)
           /\ IsPercentOf(neg, CountLabel(ScoredLabels, "NEGATIVE"), total)
           /\ pos + neg <= 10001
           /\ pos + neg >= 10000 =>
                 \A i \in 1..Len(ScoredLabels) :
                     ScoredLabels[i].label \in {"POSITIVE", "NEGATIVE"}

HighNegative == outs.descriptive.negative_percentage > 5000
StrongPositive == ~HighNegative /\ outs.descriptive.positive_percentage > 7000

Recommends(action, priority) ==
    \E i \in 1..Len(report.prescriptive.recommendations) :
        /\ report.prescriptive.recommendations[i].action = action
        /\ report.prescriptive.recommendations[i].priority = priority

\* the prescriptive narrative of the report goes by the thresholds 50 and 70
NarrativeByThresholds ==
    report.prescriptive.narrative.text =
        IF HighNegative THEN "Strategic intervention required."
        ELSE IF StrongPositive THEN "Momentum preservation strategy advised."
        ELSE "Balanced optimization approach recommended."

\* C13: in a report the "High" feedback-loop recommendation is there exactly
\* when negative_percentage > 50, which is when the narrative is the
\* high-negative one; the "Medium" scale-messaging recommendation exactly
\* when negative_percentage <= 50 and positive_percentage > 70, which is when
\* the narrative is the scale one; otherwise the narrative is the mixed one.
C13_RecommendationByThresholds ==
    ppc = "returned" =>
        /\ NarrativeByThresholds
        /\ Recommends("Implement Customer Feedback Loop", "High") <=> HighNegative
        /\ Recommends("Scale Positive Messaging", "Medium") <=> StrongPositive

\* what the report does: the narrative goes by 50 and 70, the sentiment
\* recommendation by 40 alone
C13_RecommendationByForty ==
    ppc = "returned" =>
        /\ NarrativeByThresholds
        /\ Recommends("Implement Customer Feedback Loop", "High")
              <=> outs.descriptive.negative_percentage > 4000
        /\ Recommends("Scale Positive Messaging", "Medium")
              <=> outs.descriptive.negative_percentage <= 4000

\* C14: on a table with no string-typed column no stage invokes the scorer
\* and run_full_analysis does not raise; eda gives the row count with an
\* average text length of 0, no sentiment distribution and no word
\* frequency, descriptive gives both percentages 0, diagnostic gives no
\* negative keyword and predictive is skipped for want of a text column.
C14_NoTextColumnNoScoring ==
    ~inTable.text_column =>
        /\ calls = <<>>
        /\ ppc # "raised"
        /\ outs.eda # NotRun =>
              /\ outs.eda.total_records = inTable.records
              /\ outs.eda.average_text_length = 0
              /\ outs.eda.sentiment_distribution = <<>>
              /\ outs.eda.word_frequency = <<>>
        /\ outs.descriptive # NotRun =>
              /\ outs.descriptive.positive_percentage = 0
              /\ outs.descriptive.negative_percentage = 0
        /\ outs.diagnostic # NotRun => outs.diagnostic.negative_keywords = <<>>
        /\ outs.predictive # NotRun => outs.predictive = Skipped(NoTextReason)
        /\ ppc \in {"assemble", "returned"} => outs.predictive # NotRun

\* a report returned on twelve rows of numbers, by a scorer that would have
\* raised had it been invoked
C14_Witness ==
    /\ ppc = "returned"
    /\ ~inTable.text_column
    /\ inTable.records = 12
    /\ inModel.failAt = 1
    /\ outs.predictive = Skipped(NoTextReason)

Periods(forecast) == [i \in 1..Len(forecast) |-> forecast[i].period]

\* C15: a skipped predictive result holds a status and a reason and nothing
\* else, and the report assembled from it has the skipped narrative, the
\* baseline forecast of 4 points that starts at the number of records, a
\* confidence of 0.65 and the fallback explanation; from a trained result
\* the confidence is the accuracy and the forecast has 5 points.
C15_SkippedAssembles ==
    /\ ppc = "assemble" =>
          AssembleReport(outs.eda, outs.descriptive, outs.diagnostic,
                         outs.predictive).predictive.confidence
              = IF outs.predictive.status = "trained" THEN outs.predictive.accuracy ELSE 650
    /\ ppc = "returned" /\ outs.predictive.status = "skipped" =>
          /\ DOMAIN outs.predictive = {"status", "reason"}
          /\ report.predictive.narrative.text =
                "Predictive modeling skipped due to insufficient training data. Minimum 10 text records required."
          /\ Periods(report.predictive.forecast) =
                <<"Current", "Month +1", "Month +2", "Month +3">>
          /\ report.predictive.forecast[1].predicted = inTable.records
          /\ report.predictive.confidence = 650
          /\ report.predictive.modelExplanation.text =
                "Predictive model requires minimum dataset size for training reliability."
    /\ ppc = "returned" /\ outs.predictive.status = "trained" =>
          /\ report.predictive.confidence = outs.predictive.accuracy
          /\ Len(report.predictive.forecast) = 5
          /\ report.predictive.narrative.text = "Predictive model successfully trained"

\* a report on nine texts, too few to train on
C15_Witness ==
    /\ ppc = "returned"
    /\ outs.predictive = Skipped(TooFewReason)
    /\ inTable.records = 9
    /\ report.predictive.confidence = 650
    /\ report.predictive.forecast[1].predicted = 9

Insights == outs.diagnostic.correlation_insights
Formatted == report.diagnostic.correlations

\* the length of the list and the entries but for the relationship of a
\* real one
FormattedLike(classify(_)) ==
    /\ Len(Insights) <= 5
    /\ Len(Formatted) = IF Len(Insights) < 3 THEN 3 ELSE Len(Insights)
    /\ \A i \in 1..Len(Insights) :
          /\ Formatted[i].factor = Insights[i].pair
          /\ Formatted[i].relationship = classify(Insights[i].correlation)
          /\ Formatted[i].strength = IF Insights[i].correlation < 0
                                     THEN -Insights[i].correlation
                                     ELSE Insights[i].correlation
    /\ \A i \in (Len(Insights) + 1)..Len(Formatted) :
          /\ Formatted[i].relationship = "neutral"
          /\ Formatted[i].strength = 0

PositiveOrNot(value) == IF value > 0 THEN "positive" ELSE "negative"

\* C16: the formatted list is as long as the insights, or 3 if they are
\* fewer; an entry from an insight is "positive" exactly when its correlation
\* is > 0 and "negative" exactly when it is < 0, its strength the absolute
\* value; the entries after them are "neutral" of strength 0, and only they.
C16_ClassifiedBySign ==
    ppc = "returned" =>
        /\ Len(Insights) <= 5
        /\ Len(Formatted) = IF Len(Insights) < 3 THEN 3 ELSE Len(Insights)
        /\ \A i \in 1..Len(Insights) :
              /\ Formatted[i].relationship = "positive" <=> Insights[i].correlation > 0
              /\ Formatted[i].relationship = "negative" <=> Insights[i].correlation < 0
              /\ Formatted[i].relationship # "neutral"
              /\ Formatted[i].strength = Abs(Insights[i].correlation)
        /\ \A i \in (Len(Insights) + 1)..Len(Formatted) :
              /\ Formatted[i].relationship = "neutral"
              /\ Formatted[i].strength = 0

\* what the report does: a correlation of 0 is "negative" as well
C16_ZeroIsNegative == ppc = "returned" => FormattedLike(PositiveOrNot)

Trend == report.biOverview.trend
TrendNames == [i \in 1..Len(Trend) |-> Trend[i].name]

\* C17: for a table of one row or more the trend of biOverview is Q1 < Q2 <
\* Q3 < Q4, the integer parts of 0.7, 0.85, 0.95 and 1.0 times the number
\* of records.
C17_TrendIncreasing ==
    ppc = "returned" /\ inTable.records >= 1 =>
        /\ TrendNames = <<"Q1", "Q2", "Q3", "Q4">>
        /\ Trend[1].value = (inTable.records * 70) \div 100
        /\ Trend[2].value = (inTable.records * 85) \div 100
        /\ Trend[3].value = (inTable.records * 95) \div 100
        /\ Trend[4].value = inTable.records
        /\ Trend[1].value < Trend[2].value
        /\ Trend[2].value < Trend[3].value
        /\ Trend[3].value < Trend[4].value

\* what the report does: the trend never falls, ends at the number of
\* records, and rises at every point from seven records on
C17_TrendNeverFalls ==
    ppc = "returned" /\ inTable.records >= 1 =>
        /\ TrendNames = <<"Q1", "Q2", "Q3", "Q4">>
        /\ Trend[4].value = inTable.records
        /\ \A i \in 1..3 : Trend[i].value <= Trend[i + 1].value
        /\ inTable.records >= 7 => \A i \in 1..3 : Trend[i].value < Trend[i + 1].value

Distribution == outs.eda.sentiment_distribution

\* C18: with a text column, sentiment_distribution has one key for each
\* label the scorer returned on the first 200 texts, with the number of
\* texts so labelled, so that the counts add up to min(rows, 200);
\* positive_percentage is the POSITIVE count and negative_percentage the
\* NEGATIVE count over that number, whatever other labels are tallied.
C18_DistributionCountsAll ==
    /\ inTable.text_column /\ outs.eda # NotRun =>
          /\ SumSeq([i \in 1..Len(Distribution) |-> Distribution[i].count])
                = Min(inTable.records, 200)
          /\ \A i, j \in 1..Len(Distribution) :
                Distribution[i].label = Distribution[j].label => i = j
          /\ \A i \in 1..Len(Distribution) :
                /\ Distribution[i].count > 0
                /\ Distribution[i].count = CountLabel(ScoredLabels, Distribution[i].label)
          /\ \A i \in 1..Len(ScoredLabels) :
                \E j \in 1..Len(Distribution) : Distribution[j].label = ScoredLabels[i].label
    /\ DescriptiveRan /\ inTable.records > 0 =>
          /\ IsPercentOf(outs.descriptive.positive_percentage,
                         CountLabel(ScoredLabels, "POSITIVE"), Min(inTable.records, 200))
          /\ IsPercentOf(outs.descriptive.negative_percentage,
                         CountLabel(ScoredLabels, "NEGATIVE"), Min(inTable.records, 200))

\* 698 texts of which the first 199 have no label (NEUTRAL) and the 200th
\* is POSITIVE: the distribution counts 200, the percentages are 0.5 and 0
C18_Witness ==
    /\ DescriptiveRan
    /\ inTable.records = 698
    /\ Distribution = <<[label |-> "NEUTRAL", count |-> 199], [label |-> "POSITIVE", count |-> 1]>>
    /\ outs.descriptive.positive_percentage = 50
    /\ outs.descriptive.negative_percentage = 0

StageIndex(stage) == CHOOSE k \in 1..Len(Stages) : Stages[k] = stage

\* the invocations but for the size of the list from below
CallsInOrderAndBounded ==
    /\ \A i \in 1..Len(calls) :
          /\ calls[i].stage \in {Stages[k] : k \in 1..Len(Stages)}
          /\ calls[i].size <= IF calls[i].stage = "predictive" THEN 500 ELSE 200
    /\ \A i, j \in 1..Len(calls) :
          i < j => StageIndex(calls[i].stage) < StageIndex(calls[j].stage)

\* C19: the scorer is given a list of at least one string each time, of at
\* most 200 in the eda, descriptive and diagnostic stages and 500 in the
\* predictive stage; it is invoked at most once by a stage, the stages in
\* their order, and the assembly of the report invokes it no more.
C19_ScorerContract ==
    /\ CallsInOrderAndBounded
    /\ \A i \in 1..Len(calls) : calls[i].size >= 1

\* what run_full_analysis does: all of it but for the empty list
C19_ScorerCallsBounded ==
    /\ CallsInOrderAndBounded
    /\ \A i \in 1..Len(calls) : calls[i].size = 0 => inTable.records = 0
    /\ \A i \in 1..Len(calls) : calls[i].stage = "eda" => calls[i].size >= 1

====
